---- MODULE Spec2Model ----
(***************************************************************************)
(* A model of lib/index.js of mongoose-elasticsearch-xp: the synchronize   *)
(* session (cursor, bulk queue, final refresh), the single-document        *)
(* index / update / delete calls and the save / remove hooks.              *)
(*                                                                         *)
(* lib/bulker.js is not part of the sources at hand; the bulk queue is     *)
(* modelled from its contract (push / filled / flush, "sent" and "error"   *)
(* notifications).  The search-backend client and the record store's       *)
(* cursor are external collaborators: the client answers every call once,  *)
(* with a success or an error; the cursor emits records while it is not    *)
(* paused and closes once it is exhausted.                                 *)
(***************************************************************************)
EXTENDS Integers, Sequences, FiniteSets, TLC

\* ----------------------------------------------------------------- bounds
\* the largest number of records a cursor yields
MaxDocs == 4
\* the largest threshold of the bulk queue
MaxBufferSize == 3

\* one larger session: a cursor of LargeDocs records that all pass the filter,
\* with a bulk queue of threshold LargeBufferSize
LargeDocs == 120
LargeBufferSize == 50

\* a run on a document is at most MaxOps operations of any kind (hooks and
\* direct calls) that may overlap, or at most MaxSaves saves, each one started
\* when the backend calls of the one before are answered and the handlers of
\* the earlier ones have run
MaxSaves == 2
MaxOps == 1

\* the fields the mapping declares, in mapping order
Mapping == <<"a", "b">>

VARIABLES
  \* ---- configuration
  hasFilter,     \* whether esOptions.filter is configured
  script,        \* esOptions.script
  listenerThrows, \* the document's listener of 'es-indexed' throws
  statics,       \* whether the run is calls of the model's statics
  \* ---- inputs of a synchronize session
  syncing,       \* whether the run is a synchronize() call
  docs,          \* docs[i]: what esOptions.filter answers for the i-th record
  bufferSize,    \* the bulk queue's threshold
  \* ---- the cursor (stream)
  pos,           \* number of records the stream has emitted so far
  paused,        \* stream.pause() / stream.resume()
  received,      \* records handed to the data handler, not yet pushed or skipped
  \* ---- the session
  streamClosed,  \* let streamClosed (line 329)
  listening,     \* onError / onSent are attached to the bulker
  \* ---- the bulk queue
  buffer,        \* the current batch (record ids, in push order)
  bulkPending,   \* batches sent to the backend and not yet answered
  refreshPending,\* refresh calls not yet answered
  outcome,       \* every resolve / reject of the session, in order
  \* ---- one document and its hooks
  isNew,         \* doc.isNew
  docPass,       \* what esOptions.filter answers for the document
  undef,         \* the mapped fields that are undefined in the document
  mexp,          \* doc._mexp, the context preSave leaves for postSave
  saving,        \* a save is between its pre and its post hook
  ops,           \* the document operations started so far, ops[tid] the tid-th
  pending,       \* backend calls of document operations not yet answered
  reactions,     \* the microtasks of promise chains, oldest first
  unsets,        \* promises of esUnset settled before their chain follows them
  timers,        \* setTimeout callbacks not yet run
  results,       \* every resolve / reject of a direct document call, in order
  \* ---- the backend client and the notifications
  calls,         \* every backend call made, in order
  replies,       \* every answer of the backend, in order
  emitted        \* every notification emitted, in order

confVars == <<hasFilter, script, listenerThrows, statics>>
syncVars == <<syncing, docs, bufferSize, pos, paused, received, streamClosed,
              listening, buffer, bulkPending, refreshPending, outcome>>
docVars == <<isNew, docPass, undef, mexp, saving, ops, pending, reactions,
             unsets, timers, results>>
logVars == <<calls, replies, emitted>>

vars == <<confVars, syncVars, docVars, logVars>>

\* ------------------------------------------------------------------ backend
\* err.status of a not-found answer (line 441)
NotFound == 404
\* the status of any other backend error
OtherError == 500
\* the status standing for an answer without error
Ok == 200
\* the argument standing for the exception a listener has thrown
Thrown == 1
Statuses == {Ok, NotFound, OtherError}

\* one backend call; tid names the operation that made it (0: the session)
Call(tid, op, body) == [tid |-> tid, op |-> op, body |-> body]
Reply(tid, op, status) == [tid |-> tid, op |-> op, status |-> status]
\* one notification: the operation that emits it, its name, the emitter
\* ("model" or "doc") and its argument
Event(tid, name, scope, arg) ==
  [tid |-> tid, name |-> name, scope |-> scope, arg |-> arg]
\* resolve(result) / reject(err) of a promise (or the callback's arguments)
Settled(tid, status) ==
  [tid |-> tid, kind |-> IF status = Ok THEN "resolve" ELSE "reject",
   status |-> status]

\* the logs (calls, replies, emitted, results) of the operations on a
\* document keep the entries of one operation in their order, operation by
\* operation: the new entries of an operation go behind its earlier ones
logged(log, entries) ==
  IF entries = <<>> THEN log
  ELSE SelectSeq(log, LAMBDA e : e.tid <= entries[1].tid)
       \o entries
       \o SelectSeq(log, LAMBDA e : e.tid > entries[1].tid)

Range(seq) == {seq[i] : i \in 1..Len(seq)}
RemoveAt(seq, i) ==
  [j \in 1..(Len(seq) - 1) |-> IF j < i THEN seq[j] ELSE seq[j + 1]]

\* ------------------------------------------------------------ bulk queue
\* filled(): the current batch is non-empty
filled(buf) == Len(buf) > 0

\* the batch after push(header, source) of record id
pushed(buf, id) == Append(buf, id)

\* whether a push that leaves the batch buf triggers the automatic flush
thresholdReached(buf) == Len(buf) >= bufferSize

\* flush(): sends the batch as one request and clears it; a no-op when empty
flush(buf) ==
  IF filled(buf)
    THEN /\ buffer' = <<>>
         /\ bulkPending' = Append(bulkPending, buf)
         /\ calls' = Append(calls, Call(0, "bulk", buf))
    ELSE /\ buffer' = buf
         /\ UNCHANGED <<bulkPending, calls>>

\* ---------------------------------------------------------------- session
\* !esOptions.filter || esOptions.filter(doc), for the i-th record of the cursor
passesFilter(id) == (~hasFilter) \/ docs[id]

\* finalize(): detach the listeners, request the refresh
finalize ==
  /\ listening' = FALSE
  /\ refreshPending' = refreshPending + 1
  /\ calls' = Append(calls, Call(0, "refresh", <<>>))

\* a notification handler that finalizes without looking at streamClosed
finalizeAlways == finalize /\ UNCHANGED paused

\* a notification handler that reads streamClosed the wrong way round
finalizeUnlessClosed ==
  IF ~streamClosed
    THEN finalize /\ UNCHANGED paused
    ELSE paused' = FALSE /\ UNCHANGED <<listening, refreshPending, calls>>

\* the common tail of onError and onSent
finalizeOrResume ==
  IF streamClosed
    THEN finalize /\ UNCHANGED paused
    ELSE paused' = FALSE /\ UNCHANGED <<listening, refreshPending, calls>>

\* an error handler that gives the session up: it finalizes at once
onErrorAbort(status) ==
  /\ emitted' = Append(emitted, Event(0, "es-bulk-error", "model", status))
  /\ finalize
  /\ UNCHANGED paused

\* onError(err)
onError(status) ==
  /\ emitted' = Append(emitted, Event(0, "es-bulk-error", "model", status))
  /\ finalizeOrResume

\* a sent handler that leaves the cursor paused
onSentWithoutResume(len) ==
  /\ emitted' = Append(emitted, Event(0, "es-bulk-sent", "model", len))
  /\ IF streamClosed
       THEN finalize /\ UNCHANGED paused
       ELSE UNCHANGED <<paused, listening, refreshPending, calls>>

\* onSent(len)
onSent(len) ==
  /\ emitted' = Append(emitted, Event(0, "es-bulk-sent", "model", len))
  /\ finalizeOrResume

\* a data handler that does not pause the stream
StreamDataWithoutPause ==
  /\ syncing
  /\ ~paused
  /\ ~streamClosed
  /\ pos < Len(docs)
  /\ pos' = pos + 1
  /\ received' = received \cup {pos + 1}
  /\ UNCHANGED paused
  /\ UNCHANGED <<confVars, syncing, docs, bufferSize, streamClosed, listening,
                 buffer, bulkPending, refreshPending, outcome, docVars, logVars>>

\* the stream emits its next record: the data handler starts with stream.pause()
StreamData ==
  /\ syncing
  /\ ~paused
  /\ ~streamClosed
  /\ pos < Len(docs)
  /\ pos' = pos + 1
  /\ received' = received \cup {pos + 1}
  /\ paused' = TRUE
  /\ UNCHANGED <<confVars, syncing, docs, bufferSize, streamClosed, listening,
                 buffer, bulkPending, refreshPending, outcome, docVars, logVars>>

\* bulker.push(header, source): appends, flushes at the threshold
push(id) ==
  IF thresholdReached(pushed(buffer, id))
    THEN flush(pushed(buffer, id))
    ELSE buffer' = pushed(buffer, id) /\ UNCHANGED <<bulkPending, calls>>

\* what push(header, source) returns: whether it triggered a flush
sendingAfterPush(id) == thresholdReached(pushed(buffer, id))

\* a data handler that resumes the stream whatever push returned
resumeAlways(sending) == paused' = FALSE

\* lines 379-381: if (!sending) stream.resume()
resumeUnless(sending) ==
  IF sending THEN UNCHANGED paused ELSE paused' = FALSE

\* lines 364-378: whether record id is pushed to the bulk queue
pushes(id) == passesFilter(id)

\* the rest of the data handler for record id
onData(id) ==
  /\ received' = received \ {id}
  /\ IF pushes(id)
       THEN /\ push(id)
            /\ emitted' = Append(emitted, Event(0, "es-bulk-data", "model", id))
            /\ resumeUnless(sendingAfterPush(id))
       ELSE /\ emitted' = Append(emitted, Event(0, "es-bulk-filtered", "model", id))
            /\ resumeUnless(FALSE)
            /\ UNCHANGED <<buffer, bulkPending, calls>>
  /\ UNCHANGED <<confVars, syncing, docs, bufferSize, pos, streamClosed,
                 listening, refreshPending, outcome, docVars, replies>>

HandleData == \E id \in received : onData(id)

\* a close handler that requests the refresh without flushing what is left
onCloseWithoutFlush ==
  /\ streamClosed' = TRUE
  /\ finalize
  /\ UNCHANGED <<buffer, bulkPending>>
  /\ UNCHANGED <<confVars, syncing, docs, bufferSize, pos, paused, received,
                 outcome, docVars, replies, emitted>>

\* a close handler that flushes what is left and never requests the refresh
\* of a session whose queue is empty
onCloseWithoutFinalize ==
  /\ streamClosed' = TRUE
  /\ flush(buffer)
  /\ UNCHANGED <<listening, refreshPending>>
  /\ UNCHANGED <<confVars, syncing, docs, bufferSize, pos, paused, received,
                 outcome, docVars, replies, emitted>>

\* stream.on('close')
onClose ==
  /\ streamClosed' = TRUE
  /\ IF filled(buffer)
       THEN flush(buffer) /\ UNCHANGED <<listening, refreshPending>>
       ELSE finalize /\ UNCHANGED <<buffer, bulkPending>>
  /\ UNCHANGED <<confVars, syncing, docs, bufferSize, pos, paused, received,
                 outcome, docVars, replies, emitted>>

\* the exhausted cursor closes
StreamClose ==
  /\ syncing
  /\ ~paused
  /\ ~streamClosed
  /\ pos = Len(docs)
  /\ onClose

\* the backend answers a bulk request: the queue emits "sent" or "error"
BulkSettle ==
  \E i \in 1..Len(bulkPending), status \in {Ok, OtherError} :
    /\ bulkPending' = RemoveAt(bulkPending, i)
    /\ replies' = Append(replies, Reply(0, "bulk", status))
    /\ IF listening
         THEN IF status = Ok
                THEN onSent(Len(bulkPending[i]))
                ELSE onError(status)
         ELSE UNCHANGED <<emitted, paused, listening, refreshPending, calls>>
    /\ UNCHANGED <<confVars, syncing, docs, bufferSize, pos, received,
                   streamClosed, buffer, outcome, docVars>>

\* a callback that resolves whatever the refresh answered
refreshAlwaysResolves(status) == outcome' = Append(outcome, Settled(0, Ok))

\* (err, result) => err ? reject(err) : resolve(result)
refreshCallback(status) == outcome' = Append(outcome, Settled(0, status))

\* the backend answers the refresh
RefreshSettle ==
  \E status \in Statuses :
    /\ refreshPending > 0
    /\ refreshPending' = refreshPending - 1
    /\ replies' = Append(replies, Reply(0, "refresh", status))
    /\ refreshCallback(status)
    /\ UNCHANGED <<confVars, syncing, docs, bufferSize, pos, paused, received,
                   streamClosed, listening, buffer, bulkPending, docVars,
                   calls, emitted>>

SyncNext ==
  \/ StreamData
  \/ HandleData
  \/ StreamClose
  \/ BulkSettle
  \/ RefreshSettle

\* ------------------------------------------------- document sync protocol
Fields == Range(Mapping)

\* what doc._mexp || {} reads when there is no context
NoMexp == [set |-> FALSE, wasNew |-> FALSE, unset |-> <<>>]

\* utils.getUndefineds(doc, mapping): the mapped fields the document leaves
\* undefined, in mapping order
getUndefineds == SelectSeq(Mapping, LAMBDA f : f \in undef)

\* utils.serialize(doc, mapping): the defined mapped fields of the document
serialize == [f \in Fields \ undef |-> "value"]

\* the update argument of esIndex: false, true or {unset: fields}
NoUpdate == [truthy |-> FALSE, unset |-> <<>>]
Update(unset) == [truthy |-> TRUE, unset |-> unset]

\* one started operation: the hook or method, the fields or update given, and
\* doc.isNew when it started
Op(kind, update) == [kind |-> kind, update |-> update, isNew |-> isNew]

\* indexDoc, lines 410-417: the body, with every field to unset set to null
indexBody(update) ==
  IF update.truthy /\ Len(update.unset) > 0
    THEN [f \in (DOMAIN serialize) \cup Range(update.unset) |->
            IF f \in Range(update.unset) THEN "null" ELSE serialize[f]]
    ELSE serialize

\* a pending backend call of a document operation: op is the client method,
\* arg the body sent, fn the function whose callback waits for the answer,
\* update / body the arguments _indexDoc holds, by the caller of the
\* operation (a direct call, postSave or postRemove) and data its context
Request(tid, op, arg, fn, update, body, by, data) ==
  [tid |-> tid, op |-> op, arg |-> arg, fn |-> fn, update |-> update,
   body |-> body, by |-> by, data |-> data]

\* _indexDoc(id, body, esOptions, resolve, reject, update), lines 433-439
indexDocRequest(tid, body, update, by, data) ==
  Request(tid, IF update THEN "update" ELSE "index",
          IF update THEN [doc |-> body] ELSE body,
          "_indexDoc", update, body, by, data)

\* an _indexDoc that takes every not-found for a missing document
retriesOnAnyNotFound(r, status) == status = NotFound

\* line 441: the answer that makes _indexDoc retry
retries(r, status) == r.update /\ status = NotFound

\* a retry that passes the update flag on
retryAsUpdate(r) == indexDocRequest(r.tid, r.body, r.update, r.by, r.data)

\* line 442: the retry, _indexDoc(id, body, esOptions, resolve, reject)
retryRequest(r) == indexDocRequest(r.tid, r.body, FALSE, r.by, r.data)

\* fields.map(field => `ctx._source.remove("${field}")`).join(';')
RECURSIVE removalScript(_)
removalScript(fields) ==
  IF Len(fields) = 0 THEN <<>>
  ELSE IF Len(fields) = 1 THEN <<<<"ctx._source.remove", fields[1]>>>>
  ELSE <<<<"ctx._source.remove", fields[1]>>, ";">> \o removalScript(Tail(fields))

\* the argument of unsetFields: one field name, or a list of field names
String(field) == [type |-> "string", value |-> field]
Array(fields) == [type |-> "array", value |-> fields]

\* unsetFields, lines 464-466: if (typeof fields === 'string') fields = [fields]
toArray(arg) == IF arg.type = "string" THEN <<arg.value>> ELSE arg.value

\* a body that unsets the first field of the list and no other
unsetBodyOfFirst(fields) ==
  LET first == IF Len(fields) = 0 THEN <<>> ELSE <<fields[1]>>
  IN  IF script
        THEN [script |-> removalScript(first)]
        ELSE [doc |-> [f \in Range(first) |-> "null"]]

\* unsetFields, lines 468-477: the body of the partial update
unsetBody(fields) ==
  IF script
    THEN [script |-> removalScript(fields)]
    ELSE [doc |-> [f \in Range(fields) |-> "null"]]

\* unsetFields, lines 479-487
unsetRequest(tid, arg, by, data) ==
  Request(tid, "update", unsetBody(toArray(arg)), "unsetFields", FALSE, <<>>,
          by, data)

\* removeDoc, lines 501-506
removeRequest(tid, by) ==
  Request(tid, "delete", <<>>, "removeDoc", FALSE, <<>>, by, NoMexp)

\* the client is called with request r
send(r) ==
  /\ pending' = pending \cup {r}
  /\ calls' = logged(calls, <<Call(r.tid, r.op, r.arg)>>)

\* request old was answered and its callback calls the client with r
resend(old, r) ==
  /\ pending' = (pending \ {old}) \cup {r}
  /\ calls' = logged(calls, <<Call(r.tid, r.op, r.arg)>>)

\* emit on the document and on its model
emitBoth(tid, name, arg) ==
  emitted' =
    logged(emitted,
           <<Event(tid, name, "doc", arg), Event(tid, name, "model", arg)>>)

\* removeDoc's callback, lines 507-513: the status the caller is given
removeOutcome(status) == status

\* ------------------------------------------------------------------- hooks
\* !esOptions.filter || esOptions.filter(doc), for the document
docPasses == (~hasFilter) \/ docPass

\* a hook that removes every filtered document, new or not
removesFilteredAlways(data) == TRUE

\* a hook that leaves every filtered document in the index
removesFilteredNever(data) == FALSE

\* line 563: whether postSave removes a filtered document from the index
removesFiltered(data) == ~data.wasNew

\* postSave(doc), lines 540-570, for a document whose context reads data
postSave(tid, data) ==
  IF docPasses
    THEN /\ send(indexDocRequest(
                   tid,
                   indexBody(IF data.wasNew THEN NoUpdate ELSE Update(data.unset)),
                   ~data.wasNew, "postSave", data))
         /\ UNCHANGED emitted
    ELSE /\ emitBoth(tid, "es-filtered", 0)
         /\ IF removesFiltered(data)
              THEN send(removeRequest(tid, "postSave"))
              ELSE UNCHANGED <<pending, calls>>

\* the saves started so far
Saves == Cardinality({i \in 1..Len(ops) : ops[i].kind = "save"})

\* schema.pre('save', preSave)
PreSave ==
  /\ ~syncing /\ ~statics
  /\ saving = 0
  /\ \/ Len(ops) < MaxOps
     \/ /\ Saves = Len(ops) /\ Saves < MaxSaves /\ pending = {}
        /\ \A i \in 1..Len(reactions) : reactions[i].tid = Len(ops)
  /\ ops' = Append(ops, Op("save", NoUpdate))
  /\ saving' = Len(ops) + 1
  /\ mexp' = [set |-> TRUE, wasNew |-> isNew,
              unset |-> IF isNew THEN <<>> ELSE getUndefineds]
  /\ UNCHANGED <<confVars, syncVars, timers, isNew, docPass, undef, pending, results, reactions, unsets,
                 logVars>>

\* a post-save that reads the context and leaves it on the document
PostSaveKeepingContext ==
  /\ saving # 0
  /\ saving' = 0
  /\ isNew' = FALSE
  /\ postSave(saving, mexp)
  /\ UNCHANGED <<confVars, syncVars, timers, docPass, undef, ops, results, reactions, unsets, replies,
                 mexp>>

\* schema.post('save', postSave): the store has written the document
PostSave ==
  /\ saving # 0
  /\ saving' = 0
  /\ isNew' = FALSE
  /\ mexp' = NoMexp
  /\ postSave(saving, mexp)
  /\ UNCHANGED <<confVars, syncVars, timers, docPass, undef, ops, results, reactions, unsets, replies>>

\* a hook that works on the context a pre-save would have left
PostFindOneAndUpdateAsSave ==
  /\ ~syncing /\ ~statics
  /\ ~isNew
  /\ Len(ops) < MaxOps
  /\ ops' = Append(ops, Op("findOneAndUpdate", NoUpdate))
  /\ postSave(Len(ops) + 1,
              [set |-> TRUE, wasNew |-> FALSE, unset |-> getUndefineds])
  /\ UNCHANGED <<confVars, syncVars, timers, isNew, docPass, undef, mexp, saving,
                 results, reactions, unsets, replies>>

\* schema.post('findOneAndUpdate', postSave): the hook is given the stored
\* document, an instance that went through no preSave
PostFindOneAndUpdate ==
  /\ ~syncing /\ ~statics
  /\ ~isNew
  /\ Len(ops) < MaxOps
  /\ ops' = Append(ops, Op("findOneAndUpdate", NoUpdate))
  /\ postSave(Len(ops) + 1, NoMexp)
  /\ UNCHANGED <<confVars, syncVars, timers, isNew, docPass, undef, mexp, saving,
                 results, reactions, unsets, replies>>

\* a hook that removes only the documents that pass the filter
postRemoveIfPasses(tid) ==
  IF docPasses
    THEN send(removeRequest(tid, "postRemove"))
    ELSE UNCHANGED <<pending, calls>>

\* postRemove(doc), lines 578-585
postRemove(tid) == send(removeRequest(tid, "postRemove"))

\* schema.post('remove', postRemove) and post('findOneAndRemove')
PostRemove ==
  /\ ~syncing /\ ~statics
  /\ Len(ops) < MaxOps
  /\ ops' = Append(ops, Op("remove", NoUpdate))
  /\ postRemove(Len(ops) + 1)
  /\ UNCHANGED <<confVars, syncVars, timers, isNew, docPass, undef, mexp, saving,
                 results, reactions, unsets, replies, emitted>>

\* doc.esIndex(update)
EsIndex ==
  \E update \in {NoUpdate, Update(<<>>), Update(<<"a">>)} :
    /\ ~syncing /\ ~statics
    /\ Len(ops) < MaxOps
    /\ ops' = Append(ops, Op("esIndex", update))
    /\ send(indexDocRequest(Len(ops) + 1, indexBody(update), update.truthy,
                            "api", NoMexp))
    /\ UNCHANGED <<confVars, syncVars, timers, isNew, docPass, undef, mexp, saving,
                   results, reactions, unsets, replies, emitted>>

\* doc.esUnset(fields)
EsUnset ==
  \E fields \in {String("a"), Array(<<>>), Array(<<"a">>), Array(<<"b", "a">>)} :
    /\ ~syncing /\ ~statics
    /\ Len(ops) < MaxOps
    /\ ops' = Append(ops, Op("esUnset", Update(fields)))
    /\ send(unsetRequest(Len(ops) + 1, fields, "api", NoMexp))
    /\ UNCHANGED <<confVars, syncVars, timers, isNew, docPass, undef, mexp, saving,
                   results, reactions, unsets, replies, emitted>>

\* doc.esRemove()
EsRemove ==
  /\ ~syncing /\ ~statics
  /\ Len(ops) < MaxOps
  /\ ops' = Append(ops, Op("esRemove", NoUpdate))
  /\ send(removeRequest(Len(ops) + 1, "api"))
  /\ UNCHANGED <<confVars, syncVars, timers, isNew, docPass, undef, mexp, saving,
                 results, reactions, unsets, replies, emitted>>

\* the promise of a direct call settles
report(r, status) ==
  /\ results' = logged(results, <<Settled(r.tid, status)>>)
  /\ pending' = pending \ {r}
  /\ UNCHANGED <<calls, emitted, reactions, unsets>>

\* ------------------------------------------- postSave's promise chain
\* doc.esIndex(...).then(h1).then(h2).catch(h3), lines 544-559. The client's
\* callback only settles the promise of esIndex or esUnset. Each link of the
\* chain then takes one turn in the microtask queue: a link whose handler does
\* not apply (.then on a rejection, .catch on a result) hands the outcome on to
\* the next link, and other callbacks queued before (another save of the
\* document, say) run in between.
Reaction(tid, handler, arg, data) ==
  [tid |-> tid, handler |-> handler, arg |-> arg, data |-> data]

\* the chain of operation tid has not yet subscribed to the promise that its
\* esUnset call returned (line 548)
Unfollowed(tid) ==
  \E i \in 1..Len(reactions) :
    reactions[i].tid = tid /\ reactions[i].handler = "follow"

\* resolve / reject in _indexDoc's callback of a hook's request r (lines 444,
\* 446): the promise of esIndex is settled and its reaction .then(h1) queued
settle(r, status) ==
  /\ pending' = pending \ {r}
  /\ reactions' = Append(reactions, Reaction(r.tid, "afterIndex", status, r.data))
  /\ UNCHANGED <<calls, emitted, results, unsets>>

\* resolve / reject in unsetFields' callback of a hook's request r (line 486):
\* the promise of esUnset is settled; the chain is told in a microtask if it
\* follows the promise already, and when it comes to follow it otherwise
settleUnset(r, status) ==
  /\ pending' = pending \ {r}
  /\ IF Unfollowed(r.tid)
       THEN /\ unsets' = unsets \cup {[tid |-> r.tid, status |-> status]}
            /\ UNCHANGED reactions
       ELSE /\ reactions' =
                 Append(reactions, Reaction(r.tid, "adopt", status, r.data))
            /\ UNCHANGED unsets
  /\ UNCHANGED <<calls, emitted, results>>

\* a link of the chain whose handler does not apply, or the promise of esUnset
\* the chain follows: the outcome goes on to the link named next
passOn(j, next) ==
  /\ reactions' = Append(Tail(reactions), Reaction(j.tid, next, j.arg, j.data))
  /\ UNCHANGED <<pending, calls, emitted, results, unsets>>

\* .catch(h3) of a chain that did not fail: nothing is called
passed(j) ==
  /\ reactions' = Tail(reactions)
  /\ UNCHANGED <<pending, calls, emitted, results, unsets>>

\* line 548, return doc.esUnset(...): the chain subscribes to the returned
\* promise in a microtask of its own; if the promise is settled by then, the
\* outcome is handed over in the next microtask
follow(j) ==
  /\ IF \E u \in unsets : u.tid = j.tid
       THEN LET u == CHOOSE u \in unsets : u.tid = j.tid
            IN  /\ unsets' = unsets \ {u}
                /\ reactions' =
                     Append(Tail(reactions),
                            Reaction(j.tid, "adopt", u.status, j.data))
       ELSE /\ reactions' = Tail(reactions)
            /\ UNCHANGED unsets
  /\ UNCHANGED <<pending, calls, emitted, results>>

\* emitter.emit(...) on the document and then on its model, lines 553-554 and
\* 557-558: emit calls the listeners synchronously, and the exception of the
\* document's listener leaves the handler before the model is notified
emits(tid, arg) ==
  IF listenerThrows
    THEN <<Event(tid, "es-indexed", "doc", arg)>>
    ELSE <<Event(tid, "es-indexed", "doc", arg),
           Event(tid, "es-indexed", "model", arg)>>

\* lines 552-555, the handler .then(res => emit, emit): what it returns, or
\* the exception of the listener, goes on to .catch(h3)
emitIndexed(j) ==
  /\ emitted' = logged(emitted, emits(j.tid, j.arg))
  /\ reactions' =
       Append(Tail(reactions),
              Reaction(j.tid, "catch", IF listenerThrows THEN Thrown ELSE Ok,
                       j.data))
  /\ UNCHANGED <<pending, calls, results, unsets>>

\* lines 556-559, the handler .catch(err => emit, emit): an exception of the
\* listener ends the chain
emitFailed(j) ==
  /\ emitted' = logged(emitted, emits(j.tid, j.arg))
  /\ reactions' = Tail(reactions)
  /\ UNCHANGED <<pending, calls, results, unsets>>

\* a hook that calls esUnset whether or not esOptions.script is set
afterIndexIgnoringScript(j) ==
  IF Len(j.data.unset) > 0
    THEN /\ send(unsetRequest(j.tid, Array(j.data.unset), "postSave", j.data))
         /\ reactions' =
              Append(Tail(reactions), Reaction(j.tid, "follow", Ok, j.data))
         /\ UNCHANGED <<emitted, results, unsets>>
    ELSE passOn(j, "then")

\* lines 546-551, the handler of a resolved esIndex: it calls esUnset, whose
\* promise the chain then follows, or hands the result on to the next handler
afterIndex(j) ==
  IF script /\ Len(j.data.unset) > 0
    THEN /\ send(unsetRequest(j.tid, Array(j.data.unset), "postSave", j.data))
         /\ reactions' =
              Append(Tail(reactions), Reaction(j.tid, "follow", Ok, j.data))
         /\ UNCHANGED <<emitted, results, unsets>>
    ELSE passOn(j, "then")

\* the oldest microtask of the promise chains runs
React ==
  /\ reactions # <<>>
  /\ LET j == Head(reactions)
     IN  CASE j.handler = "afterIndex" ->
                IF j.arg = Ok THEN afterIndex(j) ELSE passOn(j, "then")
           [] j.handler = "follow" -> follow(j)
           [] j.handler = "adopt" -> passOn(j, "then")
           [] j.handler = "then" ->
                IF j.arg = Ok THEN emitIndexed(j) ELSE passOn(j, "catch")
           [] j.handler = "catch" ->
                IF j.arg = Ok THEN passed(j) ELSE emitFailed(j)
  /\ UNCHANGED <<confVars, syncVars, timers, isNew, docPass, undef, mexp,
                 saving, ops, replies>>

\* _indexDoc's callback, lines 440-448: retry, reject(err) or resolve(result)
indexDocCallback(r, status) ==
  IF retries(r, status)
    THEN resend(r, retryRequest(r))
         /\ UNCHANGED <<emitted, results, reactions, unsets>>
    ELSE IF r.by = "api"
      THEN report(r, status)
      ELSE settle(r, status)

\* unsetFields' callback, line 486: err ? reject(err) : resolve(result)
unsetCallback(r, status) ==
  IF r.by = "api"
    THEN report(r, status)
    ELSE settleUnset(r, status)

\* removeDoc's callback, lines 507-513, and the hooks' (err, res) => emit
removeCallback(r, status) ==
  IF r.by = "api"
    THEN report(r, removeOutcome(status))
    ELSE /\ emitBoth(r.tid, "es-removed", removeOutcome(status))
         /\ pending' = pending \ {r}
         /\ UNCHANGED <<calls, results, reactions, unsets>>

\* ------------------------------------------------------ model statics
\* the query argument of esCount and esSearch: a query string, an object with
\* a query property, or a bare query clause
Queries == {"string", "body", "clause"}

\* lines 192-196 and 238-242: params.q = query, or params.body = query when it
\* has a query property and {query} otherwise
params(query) ==
  IF query = "string" THEN [q |-> "x"] ELSE [body |-> [query |-> "clause"]]

\* a call of the client made by a static of the model
staticRequest(tid, op, arg, options) ==
  Request(tid, op, arg, op, FALSE, <<>>, "api", options)

\* resolve(value) / reject(err) of a static that hands on a value
SettledAs(tid, status, value) ==
  [tid |-> tid, kind |-> IF status = Ok THEN "resolve" ELSE "reject",
   status |-> status, value |-> IF status = Ok THEN value ELSE "err"]

reportAs(r, status, value) ==
  /\ results' = logged(results, <<SettledAs(r.tid, status, value)>>)
  /\ pending' = pending \ {r}
  /\ UNCHANGED <<calls, emitted, reactions, unsets>>

\* Model.esCreateMapping(settings), lines 84-137
EsCreateMapping ==
  /\ statics
  /\ Len(ops) < MaxOps
  /\ ops' = Append(ops, Op("esCreateMapping", NoUpdate))
  /\ send(staticRequest(Len(ops) + 1, "exists", <<>>, NoMexp))
  /\ UNCHANGED <<confVars, syncVars, timers, isNew, docPass, undef, mexp,
                 saving, results, reactions, unsets, replies, emitted>>

putMappingRequest(r) ==
  staticRequest(r.tid, "putMapping", [body |-> Mapping], NoMexp)

\* lines 98-134: the callback of indices.exists
existsCallback(r, status, exists) ==
  IF status # Ok
    THEN report(r, status)
    ELSE /\ resend(r, IF exists
                        THEN putMappingRequest(r)
                        ELSE staticRequest(r.tid, "create", <<>>, NoMexp))
         /\ UNCHANGED <<emitted, results, reactions, unsets>>

\* lines 120-132: the callback of indices.create
createCallback(r, status) ==
  IF status # Ok
    THEN report(r, status)
    ELSE resend(r, putMappingRequest(r))
         /\ UNCHANGED <<emitted, results, reactions, unsets>>

\* Model.esRefresh(options), lines 146-167
EsRefresh ==
  /\ statics
  /\ Len(ops) < MaxOps
  /\ ops' = Append(ops, Op("esRefresh", NoUpdate))
  /\ send(staticRequest(Len(ops) + 1, "refresh", <<>>, NoMexp))
  /\ UNCHANGED <<confVars, syncVars, timers, isNew, docPass, undef, mexp,
                 saving, results, reactions, unsets, replies, emitted>>

\* lines 162-164: the callback hands the answer to setTimeout(..., refreshDelay)
refreshDelayed(r, status) ==
  /\ pending' = pending \ {r}
  /\ timers' = timers \cup {[tid |-> r.tid, status |-> status]}
  /\ UNCHANGED <<calls, emitted, results, reactions, unsets>>

\* line 163: the timer runs err ? reject(err) : resolve(result)
Timeout ==
  \E t \in timers :
    /\ timers' = timers \ {t}
    /\ results' = logged(results, <<Settled(t.tid, t.status)>>)
    /\ UNCHANGED <<confVars, syncVars, isNew, docPass, undef, mexp, saving,
                   ops, pending, reactions, unsets, logVars>>

\* Model.esCount(query, options), lines 177-207
EsCount ==
  \E query \in Queries, countOnly \in BOOLEAN :
    /\ statics
    /\ Len(ops) < MaxOps
    /\ ops' = Append(ops, Op("esCount", NoUpdate))
    /\ send(staticRequest(Len(ops) + 1, "count", params(query),
                          [countOnly |-> countOnly]))
    /\ UNCHANGED <<confVars, syncVars, timers, isNew, docPass, undef, mexp,
                   saving, results, reactions, unsets, replies, emitted>>

\* lines 197-203: resolve(countOnly ? result.count : result)
countCallback(r, status) ==
  reportAs(r, status, IF r.data.countOnly THEN "count" ELSE "result")

\* lines 244-246: if (hydrate) params._source = false
searchParams(query, hydrate) ==
  IF hydrate
    THEN [p \in (DOMAIN params(query)) \cup {"_source"} |->
            IF p = "_source" THEN "false" ELSE params(query)[p]]
    ELSE params(query)

\* Model.esSearch(query, options), lines 217-293
EsSearch ==
  \E query \in Queries, hydrate \in BOOLEAN, docsOnly \in BOOLEAN,
     idsOnly \in BOOLEAN :
    /\ statics
    /\ Len(ops) < MaxOps
    /\ hydrate \/ ~docsOnly
    /\ ops' = Append(ops, Op("esSearch", NoUpdate))
    /\ send(staticRequest(Len(ops) + 1, "search", searchParams(query, hydrate),
                          [hydrate |-> hydrate, docsOnly |-> docsOnly,
                           idsOnly |-> idsOnly]))
    /\ UNCHANGED <<confVars, syncVars, timers, isNew, docPass, undef, mexp,
                   saving, results, reactions, unsets, replies, emitted>>

\* lines 247-272: the callback of client.search; total is result.hits.total
searchCallback(r, status, total) ==
  IF status # Ok THEN reportAs(r, status, "err")
  ELSE IF ~r.data.hydrate /\ ~r.data.idsOnly THEN reportAs(r, Ok, "result")
  ELSE IF r.data.idsOnly THEN reportAs(r, Ok, "ids")
  ELSE IF ~total
    THEN reportAs(r, Ok, IF r.data.docsOnly THEN "none" ELSE "result")
    ELSE /\ resend(r, staticRequest(r.tid, "find", "ids", r.data))
         /\ UNCHANGED <<emitted, results, reactions, unsets>>

\* lines 274-289: the callback of self.find
findCallback(r, status) ==
  reportAs(r, status, IF r.data.docsOnly THEN "docs" ELSE "hydrated")

\* the backend (for find, the store) answers a call; flag is what an answer
\* without error says: the index exists, or the search has hits
Respond ==
  \E r \in pending, status \in Statuses :
    \E flag \in IF r.fn \in {"exists", "search"} /\ status = Ok
                  THEN BOOLEAN ELSE {FALSE} :
      /\ replies' = logged(replies, <<Reply(r.tid, r.op, status)>>)
      /\ IF r.fn = "refresh"
           THEN refreshDelayed(r, status)
           ELSE /\ CASE r.fn = "_indexDoc" -> indexDocCallback(r, status)
                     [] r.fn = "unsetFields" -> unsetCallback(r, status)
                     [] r.fn = "removeDoc" -> removeCallback(r, status)
                     [] r.fn = "exists" -> existsCallback(r, status, flag)
                     [] r.fn = "create" -> createCallback(r, status)
                     [] r.fn = "putMapping" -> report(r, status)
                     [] r.fn = "count" -> countCallback(r, status)
                     [] r.fn = "search" -> searchCallback(r, status, flag)
                     [] r.fn = "find" -> findCallback(r, status)
                /\ UNCHANGED timers
      /\ UNCHANGED <<confVars, syncVars, isNew, docPass, undef, mexp, saving,
                     ops>>

StaticNext ==
  \/ EsCreateMapping
  \/ EsRefresh
  \/ EsCount
  \/ EsSearch
  \/ Timeout

DocNext ==
  \/ PreSave
  \/ PostSave
  \/ PostFindOneAndUpdate
  \/ PostRemove
  \/ EsIndex
  \/ EsUnset
  \/ EsRemove
  \/ Respond
  \/ React

\* ------------------------------------------------------------------ system
\* a run is one synchronize() session over a cursor of up to MaxDocs records
SyncInit ==
  /\ syncing = TRUE
  /\ \/ /\ docs \in UNION {[1..n -> BOOLEAN] : n \in 0..MaxDocs}
        /\ bufferSize \in 1..MaxBufferSize
     \/ /\ docs = [i \in 1..LargeDocs |-> TRUE]
        /\ bufferSize = LargeBufferSize
  /\ listening = TRUE

\* no session is open
SyncIdle ==
  /\ syncing = FALSE
  /\ docs = <<>>
  /\ bufferSize = 1
  /\ listening = FALSE

\* ... or the operations on one document
DocInit ==
  /\ isNew \in BOOLEAN
  /\ docPass \in (IF hasFilter THEN BOOLEAN ELSE {TRUE})
  /\ undef \in SUBSET Fields

DocIdle ==
  /\ isNew = TRUE
  /\ docPass = TRUE
  /\ undef = {}

\* ... or calls of the model's statics, which read no state of a document
StaticsInit ==
  /\ statics = TRUE
  /\ ~hasFilter /\ ~script /\ ~listenerThrows

StaticsIdle == statics = FALSE

Init ==
  /\ hasFilter \in BOOLEAN
  /\ script \in BOOLEAN
  /\ listenerThrows \in BOOLEAN
  /\ \/ SyncInit /\ DocIdle /\ StaticsIdle /\ ~script /\ ~listenerThrows
     \/ SyncIdle /\ DocInit /\ StaticsIdle
     \/ SyncIdle /\ DocIdle /\ StaticsInit
  /\ pos = 0
  /\ paused = FALSE
  /\ received = {}
  /\ streamClosed = FALSE
  /\ buffer = <<>>
  /\ bulkPending = <<>>
  /\ refreshPending = 0
  /\ outcome = <<>>
  /\ mexp = NoMexp
  /\ saving = 0
  /\ ops = <<>>
  /\ pending = {}
  /\ reactions = <<>>
  /\ unsets = {}
  /\ timers = {}
  /\ results = <<>>
  /\ calls = <<>>
  /\ replies = <<>>
  /\ emitted = <<>>

Next == SyncNext \/ DocNext \/ StaticNext

Spec == Init /\ [][Next]_vars

\* a synchronize session whose environment keeps going: the cursor, which is
\* finite, hands out its next record or closes whenever it is not paused, the
\* data handler runs, and the backend answers every flush and the refresh
FairInit == Init /\ syncing
FairSpec ==
  /\ FairInit
  /\ [][SyncNext]_vars
  /\ WF_vars(StreamData)
  /\ WF_vars(HandleData)
  /\ WF_vars(StreamClose)
  /\ WF_vars(BulkSettle)
  /\ WF_vars(RefreshSettle)

\* ---------------------------------------------------------------- claims
Calls(op) == {i \in 1..Len(calls) : calls[i].op = op}
Replies(op) == {i \in 1..Len(replies) : replies[i].op = op}
Emitted(name) == {i \in 1..Len(emitted) : emitted[i].name = name}
\* the refresh calls of the synchronize session (Model.esRefresh is another)
Refreshes == {i \in Calls("refresh") : calls[i].tid = 0}
RefreshAnswers == {i \in Replies("refresh") : replies[i].tid = 0}

\* the session is over for the cursor and the queue: the stream has closed and
\* every flush has been answered
Drained == syncing /\ streamClosed /\ bulkPending = <<>>

\* C1: the refresh of a synchronize session is requested at most once in every
\* state, and exactly once as soon as the cursor has closed and every flush
\* has settled, whatever the records, the filter and the flushes' answers.
C1_RefreshExactlyOnce ==
  /\ Cardinality(Refreshes) <= 1
  /\ Drained => Cardinality(Refreshes) = 1

\* a session of several flushes, one of them failed, and a filtered record,
\* that has requested its refresh
C1_Witness ==
  /\ Drained
  /\ Cardinality(Refreshes) = 1
  /\ Cardinality(Calls("bulk")) >= 2
  /\ Emitted("es-bulk-error") # {}
  /\ Emitted("es-bulk-sent") # {}
  /\ Emitted("es-bulk-filtered") # {}

\* the step is the close handler
IsClose == ~streamClosed /\ streamClosed'
\* the step handles a sent or an error notification of the queue
IsNotification == Len(bulkPending') < Len(bulkPending)
\* the step hands record id to the rest of the data handler
IsHandled == received' # received /\ received' \subseteq received

\* C2: the refresh is requested only once the cursor has closed and the queue
\* holds no operation, flushed or not; a close with a filled queue issues the
\* final flush and no refresh, a close with an empty queue requests the
\* refresh at once, and a notification handled before the close requests none.
C2_RefreshOnlyWhenClosedAndEmpty ==
  /\ [](Refreshes # {} => streamClosed /\ buffer = <<>> /\ bulkPending = <<>>)
  /\ [][/\ (IsClose /\ filled(buffer)) =>
              calls' = Append(calls, Call(0, "bulk", buffer))
        /\ (IsClose /\ ~filled(buffer)) =>
              calls' = Append(calls, Call(0, "refresh", <<>>))
        /\ (IsNotification /\ ~streamClosed) => calls' = calls
        /\ (IsNotification /\ streamClosed) =>
              calls' = Append(calls, Call(0, "refresh", <<>>))]_vars

\* the refresh was requested by the notification of the final flush, after an
\* earlier notification had only resumed the cursor
C2_Witness ==
  /\ Refreshes # {}
  /\ Cardinality(Calls("bulk")) >= 2
  /\ calls[Len(calls) - 1].op = "bulk"
  /\ Len(replies) = Cardinality(Calls("bulk"))

\* C3: at most one record is being handled, the cursor is paused for as long
\* as it is, and the cursor is resumed only by a step that leaves no record in
\* the handler.
C3_OneRecordInFlight ==
  /\ [](Cardinality(received) <= 1 /\ (received # {} => paused))
  /\ [][(paused /\ ~paused') => received' = {}]_vars

\* the second record is in the handler, the first one pushed
C3_Witness ==
  /\ received = {2}
  /\ paused
  /\ buffer = <<1>>

\* C4: while a flush that a push triggered is unanswered the cursor stays
\* paused, and its notification is what resumes it; a record that is filtered
\* or whose push triggers no flush resumes the cursor in the handler itself.
\* No record is pushed, and no second flush issued, while a flush is in flight.
C4_PausedWhileFlushing ==
  /\ []((bulkPending # <<>> /\ ~streamClosed) => paused)
  /\ [](Len(bulkPending) <= 1)
  /\ [][/\ IsHandled => bulkPending = <<>>
        /\ (IsHandled /\ bulkPending' = <<>>) => ~paused'
        /\ (IsHandled /\ bulkPending' # <<>>) => paused'
        /\ (paused /\ ~paused' /\ bulkPending # <<>>) =>
              (IsNotification /\ bulkPending' = <<>>)]_vars

\* an automatic flush is in flight, the cursor is paused with records left
C4_Witness ==
  /\ bulkPending # <<>>
  /\ ~streamClosed
  /\ paused
  /\ received = {}
  /\ pos < Len(docs)
  /\ Emitted("es-bulk-sent") # {}

\* what operation tid called, was answered, reported and emitted, in order
CallsOf(tid) == SelectSeq(calls, LAMBDA c : c.tid = tid)
RepliesOf(tid) == SelectSeq(replies, LAMBDA c : c.tid = tid)
ResultsOf(tid) == SelectSeq(results, LAMBDA c : c.tid = tid)
EventsOf(tid, name) ==
  SelectSeq(emitted, LAMBDA e : e.tid = tid /\ e.name = name)
Count(seq, op) == Cardinality({i \in 1..Len(seq) : seq[i].op = op})
\* no backend call of operation tid is unanswered
Answered(tid) == \A r \in pending : r.tid # tid
\* the microtasks of operation tid that are queued
Queued(tid) == SelectSeq(reactions, LAMBDA j : j.tid = tid)
\* operation tid is over: its calls are answered and its handlers have run
\* (what may be left is the turn of .catch for a chain that did not fail)
Done(tid) ==
  /\ Answered(tid)
  /\ \A i \in 1..Len(Queued(tid)) :
       Queued(tid)[i].handler = "catch" /\ Queued(tid)[i].arg = Ok

\* operation tid starts with _indexDoc called with update set
UpdatesFirst(tid) ==
  \/ ops[tid].kind = "esIndex" /\ ops[tid].update.truthy
  \/ /\ ops[tid].kind \in {"save", "findOneAndUpdate"}
     /\ CallsOf(tid) # <<>>
     /\ CallsOf(tid)[1].op = "update"

\* C5: when the partial update of an index call is answered not-found, one
\* further call follows, a full index write of the same body; _indexDoc makes
\* no third call, and the answer to the index write is the outcome of the call:
\* a direct call reports exactly it, a hook that got an error emits it and
\* calls nothing more.
C5_RetryOnceAsFullIndex ==
  \A tid \in 1..Len(ops) :
    LET cs == CallsOf(tid)
        rs == RepliesOf(tid)
    IN  UpdatesFirst(tid) =>
          /\ cs[1].op = "update"
          /\ Count(cs, "index") <= 1
          /\ ops[tid].kind = "esIndex" =>
               /\ cs[1].body = [doc |-> indexBody(ops[tid].update)]
               /\ Len(cs) <= 2
          /\ (Len(rs) >= 1 /\ rs[1].status = NotFound) =>
               /\ Len(cs) >= 2
               /\ cs[2].op = "index"
               /\ cs[2].body = cs[1].body.doc
          /\ (Len(rs) >= 2 /\ rs[1].status = NotFound) =>
               IF ops[tid].kind = "esIndex"
                 THEN ResultsOf(tid) = <<[tid |-> tid,
                        kind |-> IF rs[2].status = Ok THEN "resolve" ELSE "reject",
                        status |-> rs[2].status]>>
                 ELSE rs[2].status # Ok =>
                        /\ Len(cs) = 2
                        /\ Done(tid) => Len(EventsOf(tid, "es-indexed")) >= 1
                        /\ \A i \in 1..Len(EventsOf(tid, "es-indexed")) :
                             EventsOf(tid, "es-indexed")[i].arg = rs[2].status

\* a direct update with a field to unset was answered not-found twice: two
\* calls were made and the second not-found is what the call reports
C5_Witness ==
  /\ Len(ops) >= 1
  /\ ops[1].kind = "esIndex"
  /\ Len(ops[1].update.unset) > 0
  /\ Len(CallsOf(1)) = 2
  /\ Len(RepliesOf(1)) = 2
  /\ RepliesOf(1)[1].status = NotFound
  /\ RepliesOf(1)[2].status = NotFound
  /\ ResultsOf(1) = <<[tid |-> 1, kind |-> "reject", status |-> NotFound]>>
  /\ pending = {}

\* the records the data handler has dealt with
Handled == (1..pos) \ received
\* every batch the queue has held: the current one and the flushed ones
Batches == {buffer} \cup {calls[i].body : i \in Calls("bulk")}

\* C6: a record the filter rejects is in no batch of the bulk queue and is
\* answered by one filtered notification and no data notification; a save of
\* a new document that the filter rejects calls no delete.
C6_FilteredNeverPushedNorRemoved ==
  /\ syncing =>
       /\ \A b \in Batches : \A id \in Range(b) : (~hasFilter) \/ docs[id]
       /\ \A id \in Handled : (hasFilter /\ ~docs[id]) =>
            /\ Cardinality({i \in Emitted("es-bulk-filtered") :
                              emitted[i].arg = id}) = 1
            /\ {i \in Emitted("es-bulk-data") : emitted[i].arg = id} = {}
  /\ \A tid \in 1..Len(ops) :
       (ops[tid].kind = "save" /\ ops[tid].isNew /\ hasFilter /\ ~docPass) =>
         /\ Count(CallsOf(tid), "delete") = 0
         /\ saving # tid => Len(EventsOf(tid, "es-filtered")) = 2

\* the save hook of a new document that the filter rejects has run: it
\* emitted the filtered notifications and called nothing
C6_Witness ==
  /\ Len(ops) >= 1
  /\ ops[1].kind = "save"
  /\ ops[1].isNew
  /\ hasFilter /\ ~docPass
  /\ saving = 0
  /\ Len(EventsOf(1, "es-filtered")) = 2
  /\ calls = <<>>

\* the batches a cursor of n records that all pass gives a queue of threshold t
NumBatches(n, t) == (n + t - 1) \div t
ExpectedBatch(k, n, t) ==
  [j \in 1..(IF k * t <= n THEN t ELSE n - (k - 1) * t) |-> (k - 1) * t + j]
ExpectedCalls(n, t) ==
  [k \in 1..(NumBatches(n, t) + 1) |->
     IF k <= NumBatches(n, t)
       THEN [tid |-> 0, op |-> "bulk", body |-> ExpectedBatch(k, n, t)]
       ELSE [tid |-> 0, op |-> "refresh", body |-> <<>>]]
AllPass == \A id \in 1..Len(docs) : (~hasFilter) \/ docs[id]

\* C7: when every one of the N records passes the filter, the backend calls of
\* the session are, in this order, ceil(N/T) flushes of T, ..., T and the
\* remaining records, in cursor order, and then the one refresh.
C7_FlushesThenRefresh ==
  (syncing /\ AllPass) =>
    LET expected == ExpectedCalls(Len(docs), bufferSize)
    IN  /\ Len(calls) <= Len(expected)
        /\ calls = SubSeq(expected, 1, Len(calls))
        /\ Drained => calls = expected

\* a session with a filter configured has flushed 50, 50 and 20 records and
\* then requested its refresh
C7_Witness ==
  /\ syncing /\ hasFilter /\ AllPass
  /\ Len(calls) = 4
  /\ Len(calls[1].body) = 50
  /\ Len(calls[2].body) = 50
  /\ Len(calls[3].body) = 20
  /\ calls[4].op = "refresh"

\* operation tid is a delete: a direct esRemove or the remove of a hook
Deletes(tid) == Count(CallsOf(tid), "delete") = 1

\* C8: a not-found answer to a delete is reported as a success by remove()
\* and by the removed notification of the hooks (they carry no error), and
\* every other error of the delete is reported with its status.
C8_NotFoundOnDeleteResolves ==
  \A tid \in 1..Len(ops) :
    (Deletes(tid) /\ RepliesOf(tid) # <<>>) =>
      LET status == RepliesOf(tid)[1].status
          shown == IF status = NotFound THEN Ok ELSE status
      IN  IF ops[tid].kind = "esRemove"
            THEN /\ Len(ResultsOf(tid)) = 1
                 /\ ResultsOf(tid)[1].status = shown
            ELSE /\ Len(EventsOf(tid, "es-removed")) = 2
                 /\ \A i \in 1..2 : EventsOf(tid, "es-removed")[i].arg = shown

\* what removeDoc does instead of C8 (lines 507-513): remove() and the removed
\* notification of the hooks report every error of the delete with its
\* status, a not-found answer included; they carry no error only when the
\* delete succeeded.
C8_DeleteReportsEveryError ==
  \A tid \in 1..Len(ops) :
    (Deletes(tid) /\ RepliesOf(tid) # <<>>) =>
      LET status == RepliesOf(tid)[1].status
      IN  IF ops[tid].kind = "esRemove"
            THEN ResultsOf(tid) = <<[tid |-> tid,
                   kind |-> IF status = Ok THEN "resolve" ELSE "reject",
                   status |-> status]>>
            ELSE /\ Len(EventsOf(tid, "es-removed")) = 2
                 /\ EventsOf(tid, "es-removed")[1].scope = "doc"
                 /\ EventsOf(tid, "es-removed")[2].scope = "model"
                 /\ \A i \in 1..2 : EventsOf(tid, "es-removed")[i].arg = status

\* a direct remove of a document that is not in the index was rejected with
\* the not-found error
C8_Witness ==
  /\ Len(ops) >= 1
  /\ ops[1].kind = "esRemove"
  /\ RepliesOf(1) = <<[tid |-> 1, op |-> "delete", status |-> NotFound]>>
  /\ ResultsOf(1) = <<[tid |-> 1, kind |-> "reject", status |-> NotFound]>>

\* the step handles the error notification of a flush
IsErrorNotification ==
  IsNotification /\ replies'[Len(replies')].status # Ok

\* C9: an error notification handled before the close emits the bulk-error
\* notification, resumes the cursor, keeps the listeners and calls nothing;
\* the refresh is requested only after every record was handled, and the
\* outcome of the session is the answer to the refresh, whatever the flushes
\* answered.
C9_FlushErrorDoesNotAbort ==
  /\ [][(IsErrorNotification /\ ~streamClosed) =>
          /\ emitted' = Append(emitted,
               [tid |-> 0, name |-> "es-bulk-error", scope |-> "model",
                arg |-> replies'[Len(replies')].status])
          /\ ~paused'
          /\ listening'
          /\ calls' = calls]_vars
  /\ [](syncing =>
          /\ Cardinality(Emitted("es-bulk-error")) =
               Cardinality({i \in Replies("bulk") : replies[i].status # Ok})
          /\ Refreshes # {} => Handled = 1..Len(docs)
          /\ \A i \in RefreshAnswers :
               replies[i].status = Ok =>
                 outcome = <<[tid |-> 0, kind |-> "resolve", status |-> Ok]>>)

\* the first flush failed, the records after it were flushed too, and the
\* session resolved
C9_Witness ==
  /\ syncing
  /\ Len(replies) >= 3
  /\ replies[1].op = "bulk" /\ replies[1].status # Ok
  /\ Cardinality(Calls("bulk")) >= 2
  /\ Handled = 1..Len(docs)
  /\ Len(outcome) = 1
  /\ outcome[1].kind = "resolve"

\* C10: the session reports one outcome, when the refresh is answered: a
\* rejection with the error of the refresh when it failed, a resolution when
\* it succeeded.
C10_OutcomeIsRefreshAnswer ==
  /\ Len(outcome) <= 1
  /\ Len(outcome) = Cardinality(RefreshAnswers)
  /\ \A i \in RefreshAnswers :
       outcome = <<[tid |-> 0,
                    kind |-> IF replies[i].status = Ok THEN "resolve" ELSE "reject",
                    status |-> replies[i].status]>>

\* every flush was sent, the refresh failed and the session was rejected
C10_Witness ==
  /\ syncing
  /\ Emitted("es-bulk-sent") # {}
  /\ Emitted("es-bulk-error") = {}
  /\ Len(outcome) = 1
  /\ outcome[1].kind = "reject"
  /\ outcome[1].status = OtherError

\* operation tid is a save or findOneAndUpdate hook whose postSave has run
PostSaved(tid) ==
  ops[tid].kind \in {"save", "findOneAndUpdate"} /\ saving # tid
\* the hook of operation tid took the document for newly created
WasNew(tid) == ops[tid].kind = "save" /\ ops[tid].isNew
\* the fields to unset the hook of operation tid was left by preSave
UnsetOf(tid) ==
  IF ops[tid].kind = "save" /\ ~ops[tid].isNew THEN getUndefineds ELSE <<>>
\* the number of calls the index / update step of operation tid takes
IndexSteps(tid) ==
  IF /\ CallsOf(tid)[1].op = "update"
     /\ RepliesOf(tid) # <<>>
     /\ RepliesOf(tid)[1].status = NotFound
    THEN 2 ELSE 1
\* one removal expression per field, in list order, joined by ";"
ExpectedScript(fields) ==
  [i \in 1..(2 * Len(fields) - 1) |->
     IF i % 2 = 1 THEN <<"ctx._source.remove", fields[(i + 1) \div 2]>> ELSE ";"]

\* C11: the post-save hook of a document that passes the filter first calls a
\* full index write of the serialized document if the document was new, and
\* otherwise a partial update whose doc carries the fields to unset as nulls;
\* a scripted unset call follows exactly when script mode is on, there are
\* fields to unset and the index / update step has succeeded.
C11_IndexThenScriptedUnset ==
  \A tid \in 1..Len(ops) :
    (PostSaved(tid) /\ docPasses) =>
      LET cs == CallsOf(tid)
          rs == RepliesOf(tid)
          k == IndexSteps(tid)
          unset == UnsetOf(tid)
      IN  /\ cs[1] =
               IF WasNew(tid)
                 THEN [tid |-> tid, op |-> "index",
                       body |-> [f \in Fields \ undef |-> "value"]]
                 ELSE [tid |-> tid, op |-> "update",
                       body |-> [doc |->
                         [f \in (Fields \ undef) \cup Range(unset) |->
                            IF f \in Range(unset) THEN "null" ELSE "value"]]]
          /\ Len(rs) < k => Len(cs) = k
          /\ Len(rs) >= k =>
               /\ Len(cs) \in {k, k + 1}
               /\ Len(cs) = k + 1 =>
                    /\ script /\ Len(unset) > 0 /\ rs[k].status = Ok
                    /\ cs[k + 1] = [tid |-> tid, op |-> "update",
                                    body |-> [script |-> ExpectedScript(unset)]]
               /\ (script /\ Len(unset) > 0 /\ rs[k].status = Ok) =>
                    \/ Len(cs) = k + 1
                    \/ /\ Len(Queued(tid)) = 1
                       /\ Queued(tid)[1].handler = "afterIndex"

\* in script mode the save of a stored document with two undefined fields was
\* answered not-found, its retry succeeded, and the scripted unset was called
C11_Witness ==
  /\ script
  /\ Len(ops) >= 1
  /\ PostSaved(1) /\ ops[1].kind = "save" /\ ~ops[1].isNew
  /\ undef = {"a", "b"}
  /\ Len(CallsOf(1)) = 3
  /\ RepliesOf(1)[1].status = NotFound
  /\ CallsOf(1)[2].op = "index"
  /\ CallsOf(1)[3].body = [script |-> ExpectedScript(<<"a", "b">>)]

\* the notification name, emitted once on the document and then once on its
\* model, both with argument arg
OncePerScope(tid, name, arg) ==
  <<[tid |-> tid, name |-> name, scope |-> "doc", arg |-> arg],
    [tid |-> tid, name |-> name, scope |-> "model", arg |-> arg]>>
\* the removed notifications of operation tid: none while its delete is
\* unanswered, then one per scope with the answer
RemovedFollowsReply(tid) ==
  EventsOf(tid, "es-removed") =
    IF RepliesOf(tid) = <<>>
      THEN <<>>
      ELSE OncePerScope(tid, "es-removed", RepliesOf(tid)[1].status)

\* C12: the post-save hook of a document that fails the filter emits the
\* filtered notification on the document and on its model, makes no index or
\* update call, issues a delete if and only if the document was not new, and
\* emits the removed notification once per scope, with the delete's outcome,
\* after the delete has settled.
C12_FilteredSaveRemovesStored ==
  \A tid \in 1..Len(ops) :
    (PostSaved(tid) /\ ~docPasses) =>
      LET cs == CallsOf(tid)
      IN  /\ EventsOf(tid, "es-filtered") = OncePerScope(tid, "es-filtered", 0)
          /\ Count(cs, "index") = 0 /\ Count(cs, "update") = 0
          /\ cs = IF WasNew(tid)
                    THEN <<>>
                    ELSE <<[tid |-> tid, op |-> "delete", body |-> <<>>]>>
          /\ Len(RepliesOf(tid)) <= Len(cs)
          /\ RemovedFollowsReply(tid)
          /\ EventsOf(tid, "es-indexed") = <<>>

\* a stored document that fails the filter was saved, and its delete was
\* answered with an error
C12_Witness ==
  /\ Len(ops) >= 1
  /\ ops[1].kind = "save" /\ ~ops[1].isNew
  /\ PostSaved(1) /\ ~docPasses
  /\ Len(CallsOf(1)) = 1
  /\ RepliesOf(1) # <<>>
  /\ RepliesOf(1)[1].status = OtherError
  /\ Len(EventsOf(1, "es-removed")) = 2

\* C13: the post-remove hook issues exactly one delete for the document,
\* whatever the filter says and whether or not the document was ever indexed,
\* and emits the removed notification once per scope when the delete settles.
C13_PostRemoveAlwaysRemoves ==
  \A tid \in 1..Len(ops) :
    ops[tid].kind = "remove" =>
      /\ CallsOf(tid) = <<[tid |-> tid, op |-> "delete", body |-> <<>>]>>
      /\ Len(RepliesOf(tid)) <= 1
      /\ RemovedFollowsReply(tid)
      /\ EventsOf(tid, "es-filtered") = <<>>

\* a new document that fails the filter, and so was never indexed, was
\* removed, and the removed notification was emitted
C13_Witness ==
  /\ Len(ops) >= 1
  /\ ops[1].kind = "remove"
  /\ hasFilter /\ ~docPass /\ ops[1].isNew
  /\ Len(CallsOf(1)) = 1
  /\ Len(EventsOf(1, "es-removed")) = 2

\* C14: the post-save hook of a document that passes the filter emits the
\* indexed notification exactly once on the document and exactly once on its
\* model, once its last backend call is answered and the handlers that wait
\* for the answer have run: the notification carries the error of the index /
\* update step or of the follow-up unset step if one failed and the result
\* otherwise, it is never emitted before that, never twice, and never left out.
C14_IndexedOncePerScope ==
  \A tid \in 1..Len(ops) :
    (PostSaved(tid) /\ docPasses) =>
      LET rs == RepliesOf(tid)
          k == IndexSteps(tid)
          failed == {i \in 1..Len(rs) : rs[i].status # Ok /\ i >= k}
      IN  /\ ~Answered(tid) => failed = {}
          /\ ~Done(tid) => EventsOf(tid, "es-indexed") = <<>>
          /\ Done(tid) =>
               /\ Len(rs) = Len(CallsOf(tid))
               /\ Cardinality(failed) <= 1
               /\ EventsOf(tid, "es-indexed") =
                    OncePerScope(tid, "es-indexed",
                                 IF failed = {} THEN Ok
                                 ELSE rs[CHOOSE i \in failed : TRUE].status)
          /\ EventsOf(tid, "es-filtered") = <<>>
          /\ EventsOf(tid, "es-removed") = <<>>

\* the document's listener throws, the save succeeded, and the document was
\* notified twice, of the result and then of the listener's exception, and
\* the model not at all
C14_Witness ==
  /\ listenerThrows
  /\ Len(ops) >= 1
  /\ ops[1].kind = "save" /\ PostSaved(1) /\ docPasses /\ Answered(1)
  /\ \A i \in 1..Len(RepliesOf(1)) : RepliesOf(1)[i].status = Ok
  /\ EventsOf(1, "es-indexed") =
       <<[tid |-> 1, name |-> "es-indexed", scope |-> "doc", arg |-> Ok],
         [tid |-> 1, name |-> "es-indexed", scope |-> "doc", arg |-> Thrown]>>

\* C14 holds for listeners that return: when the document's listener does not
\* throw, the notification is emitted exactly once per scope.
C14_IndexedOncePerScopeUnlessThrown ==
  listenerThrows \/ C14_IndexedOncePerScope

\* the list of fields an argument of unsetFields stands for
Listed(arg) == IF arg.type = "array" THEN arg.value ELSE <<arg.value>>

\* C15: unsetFields over a list of fields issues exactly one partial-update
\* call: in script mode its body is one script, the removal expressions of the
\* fields in list order joined by ";", and in doc mode its body is a doc that
\* maps every listed field to null; a field given as a string is handled as
\* the list of that one field.
C15_UnsetIsOneUpdate ==
  \A tid \in 1..Len(ops) :
    ops[tid].kind = "esUnset" =>
      LET list == Listed(ops[tid].update.unset)
      IN  /\ CallsOf(tid) =
               <<[tid |-> tid, op |-> "update",
                  body |-> IF script
                             THEN [script |-> ExpectedScript(list)]
                             ELSE [doc |-> [f \in Range(list) |-> "null"]]]>>
          /\ Len(RepliesOf(tid)) <= 1
          /\ Len(ResultsOf(tid)) = Len(RepliesOf(tid))
          /\ \A i \in 1..Len(ResultsOf(tid)) :
               ResultsOf(tid)[i].status = RepliesOf(tid)[i].status

\* in script mode unsetFields(['b', 'a']) has sent one script that removes b
\* and then a
C15_Witness ==
  /\ script
  /\ Len(ops) >= 1
  /\ ops[1].kind = "esUnset"
  /\ ops[1].update.unset = [type |-> "array", value |-> <<"b", "a">>]
  /\ Len(CallsOf(1)) = 1
  /\ CallsOf(1)[1].body =
       [script |-> <<<<"ctx._source.remove", "b">>, ";",
                     <<"ctx._source.remove", "a">>>>]

\* the context the pre-save of operation tid creates: the was-new flag, and
\* the undefined fields of the mapping only for a document that is not new
ContextOf(tid) ==
  [set |-> TRUE,
   wasNew |-> ops[tid].isNew,
   unset |-> IF ops[tid].isNew
               THEN <<>>
               ELSE SelectSeq(Mapping, LAMBDA f : f \in undef)]

\* C16: the pending mutation context of a document is created by pre-save
\* (the was-new flag, and the fields to unset only when the document is not
\* new), the post-save of that save reads it and clears it: between saves the
\* document carries no context, and every save's post-save works on the
\* context of its own pre-save, never on that of an earlier save.
C16_ContextCreatedConsumedCleared ==
  /\ saving = 0 => mexp = [set |-> FALSE, wasNew |-> FALSE, unset |-> <<>>]
  /\ saving # 0 =>
       /\ saving \in 1..Len(ops)
       /\ ops[saving].kind = "save"
       /\ mexp = ContextOf(saving)
       /\ CallsOf(saving) = <<>>
  /\ \A r \in pending :
       (r.by = "postSave" /\ ops[r.tid].kind = "save") =>
         /\ r.tid # saving
         /\ r.op = "delete" => ~ContextOf(r.tid).wasNew
         /\ r.op # "delete" => r.data = ContextOf(r.tid)
  /\ \A i \in 1..Len(reactions) :
       ops[reactions[i].tid].kind = "save" =>
         /\ reactions[i].data = ContextOf(reactions[i].tid)
         /\ reactions[i].tid # saving

\* the document was saved as new, then saved again with an undefined field:
\* the second pre-save has created a context that says not new and lists the
\* field, after the first post-save had cleared the first context
C16_Witness ==
  /\ Len(ops) = 2
  /\ ops[1].kind = "save" /\ ops[1].isNew
  /\ ops[2].kind = "save" /\ ~ops[2].isNew
  /\ CallsOf(1) # <<>>
  /\ CallsOf(1)[1].op = "index"
  /\ saving = 2
  /\ undef = {"b"}
  /\ mexp = [set |-> TRUE, wasNew |-> FALSE, unset |-> <<"b">>]

\* C17: a single-document index call rejects at once, with the backend's
\* error as it is and without a retry, on every error but a not-found answer
\* to a partial update: an error of a full index write (404 included) and a
\* non-404 error of a partial update each make exactly one backend call and
\* one rejection (a direct call rejects; a hook, which has no caller, emits).
C17_OtherErrorsRejectAtOnce ==
  \A tid \in 1..Len(ops) :
    LET cs == CallsOf(tid)
        rs == RepliesOf(tid)
        direct == ops[tid].kind = "esIndex"
        hook == PostSaved(tid) /\ docPasses
    IN  (/\ direct \/ hook
         /\ Len(rs) >= 1
         /\ rs[1].status # Ok
         /\ cs[1].op = "index" \/ rs[1].status # NotFound) =>
          /\ Len(cs) = 1
          /\ Len(rs) = 1
          /\ direct =>
               ResultsOf(tid) =
                 <<[tid |-> tid, kind |-> "reject", status |-> rs[1].status]>>
          /\ hook =>
               /\ ResultsOf(tid) = <<>>
               /\ Done(tid) => Len(EventsOf(tid, "es-indexed")) >= 1
               /\ \A i \in 1..Len(EventsOf(tid, "es-indexed")) :
                    EventsOf(tid, "es-indexed")[i].arg = rs[1].status

\* a direct full index write was answered not-found: one call, one rejection
\* with 404, no retry
C17_Witness ==
  /\ Len(ops) >= 1
  /\ ops[1].kind = "esIndex"
  /\ ~ops[1].update.truthy
  /\ Len(CallsOf(1)) = 1
  /\ CallsOf(1)[1].op = "index"
  /\ RepliesOf(1) # <<>>
  /\ RepliesOf(1)[1].status = NotFound
  /\ ResultsOf(1) = <<[tid |-> 1, kind |-> "reject", status |-> NotFound]>>
  /\ pending = {}

\* C18: the closed flag of a synchronize session is false at first, becomes
\* true in one step, the close of the exhausted cursor, and never goes back;
\* every sent or error notification handled after that step finalizes (it
\* detaches the listeners and requests the refresh) and does not touch the
\* cursor, and every one handled before it resumes the cursor and does not
\* finalize.
C18_ClosedFlagSetOnceAndRead ==
  /\ [](~syncing => ~streamClosed)
  /\ [][/\ streamClosed => streamClosed'
        /\ IsClose =>
             /\ pos = Len(docs) /\ ~paused /\ received = {}
             /\ ~IsNotification
             /\ replies' = replies
        /\ (IsNotification /\ listening /\ streamClosed) =>
             /\ ~listening'
             /\ refreshPending' = refreshPending + 1
             /\ calls' = Append(calls, [tid |-> 0, op |-> "refresh", body |-> <<>>])
             /\ paused' = paused
        /\ (IsNotification /\ listening /\ ~streamClosed) =>
             /\ ~paused'
             /\ listening'
             /\ refreshPending' = refreshPending
             /\ calls' = calls
             /\ ~streamClosed']_vars

\* a flush was answered before the close and resumed the cursor; the final
\* flush failed after the close, and its error notification finalized
C18_Witness ==
  /\ syncing /\ streamClosed /\ ~listening
  /\ Emitted("es-bulk-sent") # {}
  /\ emitted[Len(emitted)].name = "es-bulk-error"
  /\ replies[Len(replies)].op = "bulk"
  /\ Cardinality(Refreshes) = 1
  /\ calls[Len(calls)].op = "refresh"

\* C19: with a finite cursor and a backend that answers every flush and the
\* refresh, every synchronize call reports its outcome in the end, and the
\* session is never left with the cursor paused, no record in the handler and
\* no flush in flight, whatever the records, the filter's answers, the
\* automatic flushes, their errors and the moment of the close.
C19_SessionNeverBlocksAndEnds ==
  /\ []((syncing /\ paused /\ received = {}) => bulkPending # <<>>)
  /\ [](syncing => <>(Len(outcome) = 1))

\* a session with a filtered-out record, an automatic flush and a failed flush
\* has reported its outcome
C19_Witness ==
  /\ syncing
  /\ Len(outcome) = 1
  /\ hasFilter /\ \E i \in 1..Len(docs) : ~docs[i]
  /\ Cardinality(Calls("bulk")) >= 2
  /\ Emitted("es-bulk-error") # {}
  /\ Handled = 1..Len(docs)

\* the first update of operation tid was answered not-found
FirstNotFound(tid) ==
  RepliesOf(tid) # <<>> /\ RepliesOf(tid)[1].status = NotFound

\* C20: the post hook of findOneAndUpdate, which no pre-save precedes, takes
\* the document for not new and for having nothing to unset: if the document
\* passes the filter it sends a partial update of the serialized document
\* with no nulled field, falls back to a full index on not-found, and calls no
\* unsetFields after it even in script mode; if the document fails the filter
\* it issues a delete.
C20_HookWithoutContext ==
  \A tid \in 1..Len(ops) :
    ops[tid].kind = "findOneAndUpdate" =>
      LET cs == CallsOf(tid)
          sent == [f \in Fields \ undef |-> "value"]
      IN  IF docPasses
            THEN /\ cs[1] = [tid |-> tid, op |-> "update", body |-> [doc |-> sent]]
                 /\ Len(cs) = IF FirstNotFound(tid) THEN 2 ELSE 1
                 /\ FirstNotFound(tid) =>
                      cs[2] = [tid |-> tid, op |-> "index", body |-> sent]
                 /\ EventsOf(tid, "es-filtered") = <<>>
            ELSE /\ cs = <<[tid |-> tid, op |-> "delete", body |-> <<>>]>>
                 /\ EventsOf(tid, "es-filtered") =
                      OncePerScope(tid, "es-filtered", 0)

\* in script mode, on a document with an undefined field, the hook's update
\* was answered not-found and its full index succeeded: the indexed
\* notification was emitted after two calls, none of them an unset
C20_Witness ==
  /\ script
  /\ undef = {"a"}
  /\ Len(ops) >= 1
  /\ ops[1].kind = "findOneAndUpdate"
  /\ docPasses
  /\ Len(CallsOf(1)) = 2
  /\ Len(RepliesOf(1)) = 2
  /\ RepliesOf(1)[1].status = NotFound
  /\ RepliesOf(1)[2].status = Ok
  /\ Answered(1)
  /\ Len(EventsOf(1, "es-indexed")) = 2

====
